---- MODULE Spec2Model ----
(***************************************************************************)
(* A model of submit50/git.py: the two git clients (the template client    *)
(* AssignmentTemplateGitClient and the submission client                   *)
(* StudentAssignmentGitClient), the module-level helpers, the temporary    *)
(* directories they create and the git invocations they issue.             *)
(*                                                                         *)
(* A Python str is a sequence of one-character strings, except that the    *)
(* fixed text of an error message is kept as one element.  Every git       *)
(* invocation ends in one of three outcomes chosen by the environment:     *)
(* "ok" (exit status 0), "nonzero" (subprocess.CalledProcessError) or      *)
(* "missing" (FileNotFoundError: no git executable on PATH).               *)
(***************************************************************************)
EXTENDS Integers, Sequences, FiniteSets, TLC

VARIABLES
    cls,        \* class of the client instance: "none" before construction
    username,   \* self.username
    repo,       \* self.repo
    git_host,   \* self.git_host
    configs,    \* self.configs
    git_dir,    \* self.git_dir: None, or the temporary directory bound
    dirs,       \* the temporary directories that exist on disk
    scopes,     \* the open `with client.clone...()` scopes, innermost last
    nextDir,    \* the next fresh temporary directory
    branch,     \* the branch checked out in the caller's work tree
    calls,      \* the git invocations issued by the last operation, in order
    outcome,    \* how the last operation ended
    binds,      \* how many times self.git_dir has been assigned a directory
    branchAtBind \* the branch that was checked out when git_dir was last bound

vars == <<cls, username, repo, git_host, configs, git_dir, dirs, scopes,
          nextDir, branch, calls, outcome, binds, branchAtBind>>

\* Number of temporary directories one behaviour may create.
MaxDirs == 2

\* Python's None, as a directory.
None == 0

\* An environment variable that is not set.
Unset == <<"<unset>">>

\* What SUBMIT50_GIT_HOST may be: not set, empty, or a host prefix.
EnvHosts == {Unset, <<>>, <<"g", "i", "t", "@", "h", ".", "i", "o", ":">>}

------------------------------------------------------------------------------
\* Strings

NL == "\n"

Whitespace == {" ", NL, "\t"}

S_github_com == <<"g", "i", "t", "h", "u", "b", ".", "c", "o", "m">>

S_users_noreply == <<"@", "u", "s", "e", "r", "s", ".", "n", "o", "r", "e", "p", "l", "y", ".">>

\* The default of the git_host parameter, 'git@github.com:'.
DefaultHost == <<"g", "i", "t", "@">> \o S_github_com \o <<":">>

\* Another host prefix, 'git@h.io:'.
OtherHost == <<"g", "i", "t", "@", "h", ".", "i", "o", ":">>

\* A host prefix that ends with the path separator, 'h/'.
SlashHost == <<"h", "/">>

\* 'org/repo'
OrgRepo == <<"o", "r", "g", "/", "r", "e", "p", "o">>

\* An absolute repository path, '/r'.
AbsRepo == <<"/", "r">>

Hosts == {DefaultHost, OtherHost, SlashHost}

Repos == {OrgRepo, AbsRepo}

Usernames == {<<"a", "l">>, <<"b">>}

\* Values a configuration key may hold; git accepts the empty value.
ConfigValues == {<<>>, <<"x">>}

Keys == <<"user.name", "user.email", "credential.helper">>

BranchNames == {<<"m">>, <<"d", "e", "v">>}

\* File names in the work tree.
FileNames == {<<"a">>, <<"b">>, <<"a", " ", "b">>}

\* The code point of a character (Python compares str by code point).
Ord(c) ==
    CASE c = "\t" -> 9
      [] c = NL -> 10
      [] c = " " -> 32
      [] c = "a" -> 97
      [] c = "b" -> 98
      [] OTHER -> 127

\* s < t for two str, as Python's str.__lt__.
RECURSIVE StrLess(_, _)
StrLess(s, t) ==
    IF t = <<>> THEN FALSE
    ELSE IF s = <<>> THEN TRUE
    ELSE IF Head(s) = Head(t) THEN StrLess(Tail(s), Tail(t))
    ELSE Ord(Head(s)) < Ord(Head(t))

StrLeq(s, t) == s = t \/ StrLess(s, t)

\* str.startswith(sep), str.endswith(sep) for a one-character sep.
StartsWith(s, c) == Len(s) > 0 /\ s[1] = c

EndsWith(s, c) == Len(s) > 0 /\ s[Len(s)] = c

\* os.path.join(a, b) with one component b (posixpath.join).
\* (A join that is plain concatenation.)
PlainConcat(a, b) == a \o b

PosixJoin(a, b) ==
    IF StartsWith(b, "/") THEN b
    ELSE IF a = <<>> \/ EndsWith(a, "/") THEN a \o b
    ELSE a \o <<"/">> \o b

\* str.rstrip(): trailing whitespace removed.
RECURSIVE RStrip(_)
RStrip(s) ==
    IF s = <<>> THEN s
    ELSE IF s[Len(s)] \in Whitespace THEN RStrip(SubSeq(s, 1, Len(s) - 1))
    ELSE s

\* str.split(): the maximal runs of non-whitespace characters, in order.
RECURSIVE SplitFrom(_, _, _)
SplitFrom(s, word, acc) ==
    IF s = <<>> THEN (IF word = <<>> THEN acc ELSE Append(acc, word))
    ELSE IF Head(s) \in Whitespace
         THEN SplitFrom(Tail(s), <<>>, IF word = <<>> THEN acc ELSE Append(acc, word))
         ELSE SplitFrom(Tail(s), Append(word, Head(s)), acc)

Split(s) == SplitFrom(s, <<>>, <<>>)

\* sorted(xs) for a list of str: insertion into an ascending list.
RECURSIVE Insert(_, _)
Insert(x, xs) ==
    IF xs = <<>> THEN <<x>>
    ELSE IF StrLeq(x, Head(xs)) THEN <<x>> \o xs
    ELSE <<Head(xs)>> \o Insert(x, Tail(xs))

RECURSIVE Sorted(_)
Sorted(xs) == IF xs = <<>> THEN <<>> ELSE Insert(Head(xs), Sorted(Tail(xs)))

Range(f) == {f[i] : i \in DOMAIN f}

------------------------------------------------------------------------------
\* Exceptions and results

Outcomes == {"ok", "nonzero", "missing"}

NoExc == [type |-> "none", msg |-> <<>>]

RuntimeError(msg) == [type |-> "RuntimeError", msg |-> msg]

\* What subprocess.check_output raises for an invocation that did not succeed.
Raw(out) ==
    IF out = "nonzero" THEN [type |-> "CalledProcessError", msg |-> <<>>]
    ELSE [type |-> "FileNotFoundError", msg |-> <<>>]

Result(op, status, exc, value, dir, files) ==
    [op |-> op, status |-> status, exc |-> exc, value |-> value, dir |-> dir,
     files |-> files]

------------------------------------------------------------------------------
\* Git invocations

NoArgs == [flags |-> <<>>, remote |-> <<>>, dest |-> None, ref |-> <<>>, key |-> ""]

\* git(args): subprocess.check_output(['git', *args]).
git(cmd, args, out, stdout) ==
    [cmd |-> cmd, args |-> args, worktree |-> FALSE, gitdir |-> None,
     gitdirExists |-> FALSE, configs |-> <<>>, out |-> out,
     stdout |-> IF out = "ok" THEN stdout ELSE <<>>]

\* (A _git that never passes --git-dir.)
Unbound_git(cmd, args, out, stdout) ==
    [git(cmd, args, out, stdout) EXCEPT !.worktree = TRUE, !.configs = configs]

\* self._git(args): --git-dir when self.git_dir is set, --work-tree, self.configs.
_git(cmd, args, out, stdout) ==
    [git(cmd, args, out, stdout) EXCEPT
        !.worktree = TRUE,
        !.gitdir = IF git_dir # None THEN git_dir ELSE None,
        !.gitdirExists = git_dir # None /\ git_dir \in dirs,
        !.configs = configs]

\* (A block that goes on after a failed invocation.)
NoFailFast(cs, fatal) == cs

\* The invocations a block of statements issues: an exception that the block
\* does not handle at the call (an outcome in `fatal`) ends the block.
RECURSIVE Issued(_, _)
Issued(cs, fatal) ==
    IF cs = <<>> THEN <<>>
    ELSE IF Head(cs).out \in fatal THEN <<Head(cs)>>
    ELSE <<Head(cs)>> \o Issued(Tail(cs), fatal)

Last(cs) == cs[Len(cs)]

\* The outcomes of the invocation that follows one that ended in `out`, in a
\* block that `out` ends unless it is "ok": the outcome of an invocation that
\* the code does not reach is not an input.
NextOutcomes(out) == IF out = "ok" THEN Outcomes ELSE {"ok"}

\* The tracked files `git ls-files` finds when it ends in `out`.
TrackedAfter(out) == IF out = "ok" THEN SUBSET FileNames ELSE {{}}

Failed(cs, fatal) == cs # <<>> /\ Last(cs).out \in fatal

------------------------------------------------------------------------------
\* Module-level helpers

VersionText == <<"git version">>

\* What `git config --get <key>` can do: print the value and a newline, exit
\* with a non-zero status (the key is absent, or the query failed), or not run.
Probes ==
    {[out |-> "ok", stdout |-> v \o <<NL>>] : v \in ConfigValues}
        \cup {[out |-> o, stdout |-> <<>>] : o \in {"nonzero", "missing"}}

\* config(['--get', key])
config(key, p) ==
    git("config", [NoArgs EXCEPT !.flags = <<"--get">>, !.key = key], p.out, p.stdout)

\* not_configured(key), given the invocation it made: the truth value of what
\* it returns (bytes are true when not empty).  FileNotFoundError is not caught.
not_configured(c) ==
    IF c.out = "ok" THEN c.stdout # <<>>
    ELSE TRUE

\* clone(args), the module-level function.
clone(args, out) == git("clone", args, out, <<>>)

\* The except clause of assert_git_installed.
AssertExc(out) ==
    IF out = "missing"
    THEN RuntimeError(<<"It looks like git is not installed. Please install git then try again.">>)
    ELSE Raw(out)

------------------------------------------------------------------------------
\* GitClient and its subclasses

\* os.getenv('SUBMIT50_GIT_HOST', git_host)
GetEnv(env, default) == IF env # Unset THEN env ELSE default

DashC == <<"-", "c">>

KeyPrefix(key) ==
    CASE key = "user.name" -> "user.name="
      [] key = "user.email" -> "user.email="
      [] key = "credential.helper" -> "credential.helper="

\* (An override that leaves out the users.noreply part.)
EmailAtHost(u) == <<KeyPrefix("user.email")>> \o u \o <<"@">> \o S_github_com

\* f'user.email={self.username}@users.noreply.github.com'
EmailOverride(u) == <<KeyPrefix("user.email")>> \o u \o S_users_noreply \o S_github_com

\* self._default_configs(), given the three queries it made.
_default_configs(u, cs) ==
    (IF not_configured(cs[1])
     THEN <<DashC, <<KeyPrefix("user.name")>> \o u>> ELSE <<>>)
    \o (IF not_configured(cs[2])
        THEN <<DashC, EmailOverride(u)>> ELSE <<>>)
    \o (IF not_configured(cs[3])
        THEN <<DashC, <<KeyPrefix("credential.helper"), "c", "a", "c", "h", "e">>>> ELSE <<>>)

\* remote = os.path.join(self.git_host, self.repo)
Remote(host, r) == PosixJoin(host, r)

\* The except clause of AssignmentTemplateGitClient.clone.
CloneExc(out, remote) ==
    IF out = "nonzero"
    THEN RuntimeError(<<"Failed to clone \"">> \o remote \o <<"\".">>)
    ELSE Raw(out)

\* The except clause of StudentAssignmentGitClient.clone_bare.
CloneBareExc(out, remote) ==
    IF out = "nonzero"
    THEN RuntimeError(<<"Failed to clone \"">> \o remote
            \o <<"\".\nPlease make sure you accepted the assignment invite on the problem set page.">>)
    ELSE Raw(out)

\* (An add with no except clause.)
AddUncaught(out) == Raw(out)

\* The except clause of add.
AddExc(out) ==
    IF out = "nonzero" THEN RuntimeError(<<"Failed to ready files for submission.">>)
    ELSE Raw(out)

\* The except clause of commit_push.
CommitPushExc(out) ==
    IF out = "nonzero" THEN RuntimeError(<<"Failed to submit.">>)
    ELSE Raw(out)

\* (A directory that is removed only when the block ends normally.)
RemoveOnSuccessOnly(ds, d, exc) == IF exc = NoExc THEN ds \ {d} ELSE ds

\* tempfile.TemporaryDirectory.__exit__: the directory is removed whether the
\* block ended normally or with the exception exc.
TemporaryDirectory_exit(ds, d, exc) == ds \ {d}

\* The names of a set of files, in ascending order.
RECURSIVE InOrder(_)
InOrder(S) ==
    IF S = {} THEN <<>>
    ELSE LET m == CHOOSE x \in S : \A y \in S : StrLeq(x, y)
         IN <<m>> \o InOrder(S \ {m})

\* What `git ls-files` prints: each tracked name and a newline.
RECURSIVE Lines(_)
Lines(names) ==
    IF names = <<>> THEN <<>> ELSE Head(names) \o <<NL>> \o Lines(Tail(names))

LsFilesOutput(files) == Lines(InOrder(files))

\* What `git branch --show-current` prints: nothing on a detached HEAD.
BranchOutput(b) == IF b = <<>> THEN <<>> ELSE b \o <<NL>>

\* self._ls_files(), given what ls-files printed.
_ls_files(stdout) == Sorted(Split(stdout))

\* (A branch remembered from the time the directory was bound.)
RememberedBranch(stdout) == branchAtBind

\* self._current_branch(), given what the query printed.
_current_branch(stdout) == RStrip(stdout)

------------------------------------------------------------------------------
\* The state after the module is imported: no client yet, no directory.

Init ==
    /\ cls = "none"
    /\ username = <<>>
    /\ repo = <<>>
    /\ git_host = <<>>
    /\ configs = <<>>
    /\ git_dir = None
    /\ dirs = {}
    /\ scopes = <<>>
    /\ nextDir = 1
    /\ branch \in BranchNames
    /\ calls = <<>>
    /\ outcome = Result("import", "returned", NoExc, <<>>, None, {})
    /\ binds = 0
    /\ branchAtBind = <<>>

\* assert_git_installed()
AssertGitInstalled ==
    \E out \in Outcomes :
        LET cs == <<git("--version", NoArgs, out, VersionText)>> IN
        /\ calls' = cs
        /\ outcome' = IF out = "ok"
                      THEN Result("assert_git_installed", "returned", NoExc, <<>>, None, {})
                      ELSE Result("assert_git_installed", "raised", AssertExc(out), <<>>, None, {})
        /\ UNCHANGED <<cls, username, repo, git_host, configs, git_dir, dirs,
                       scopes, nextDir, branch, binds, branchAtBind>>

\* AssignmentTemplateGitClient(repo, git_host): GitClient.__init__
ConstructTemplate ==
    \E r \in Repos, h \in Hosts, env \in EnvHosts :
        /\ cls = "none"
        /\ cls' = "template"
        /\ git_host' = GetEnv(env, h)
        /\ repo' = r
        /\ git_dir' = None
        /\ calls' = <<>>
        /\ outcome' = Result("__init__", "returned", NoExc, <<>>, None, {})
        /\ UNCHANGED <<username, configs, dirs, scopes, nextDir, branch, binds,
                       branchAtBind>>

\* StudentAssignmentGitClient(username, repo, git_host): __init__ and the
\* three queries of _default_configs.  A query that raises FileNotFoundError
\* ends the constructor, and no instance is returned.
ConstructStudent ==
    \E u \in Usernames, r \in Repos, h \in Hosts, env \in EnvHosts,
       p \in [1..3 -> Probes] :
        LET cs == Issued([i \in 1..3 |-> config(Keys[i], p[i])], {"missing"}) IN
        /\ cls = "none"
        /\ calls' = cs
        /\ IF Failed(calls', {"missing"})
           THEN /\ outcome' = Result("__init__", "raised", Raw("missing"), <<>>, None, {})
                /\ UNCHANGED <<cls, username, repo, git_host, configs, git_dir>>
           ELSE /\ cls' = "student"
                /\ username' = u
                /\ git_host' = GetEnv(env, h)
                /\ repo' = r
                /\ git_dir' = None
                /\ configs' = _default_configs(u, calls')
                /\ outcome' = Result("__init__", "returned", NoExc, <<>>, None, {})
        /\ UNCHANGED <<dirs, scopes, nextDir, branch, binds, branchAtBind>>

\* AssignmentTemplateGitClient.clone, up to its yield or its exception.
CloneEnter ==
    \E out \in Outcomes :
        LET remote == Remote(git_host, repo)
            temp_dir == nextDir
            c == clone([NoArgs EXCEPT !.flags = <<"--depth", "1", "--quiet">>,
                                      !.remote = remote, !.dest = temp_dir], out)
        IN
        /\ cls = "template"
        /\ nextDir <= MaxDirs
        /\ nextDir' = nextDir + 1
        /\ calls' = <<c>>
        /\ IF out = "ok"
           THEN /\ dirs' = dirs \cup {temp_dir}
                /\ scopes' = Append(scopes, temp_dir)
                /\ outcome' = Result("clone", "entered", NoExc, <<>>, temp_dir, {})
           ELSE /\ dirs' = TemporaryDirectory_exit(dirs \cup {temp_dir}, temp_dir,
                                                   CloneExc(out, remote))
                /\ scopes' = scopes
                /\ outcome' = Result("clone", "raised", CloneExc(out, remote), <<>>,
                                     temp_dir, {})
        /\ UNCHANGED <<cls, username, repo, git_host, configs, git_dir, branch,
                       binds, branchAtBind>>

\* StudentAssignmentGitClient.clone_bare, up to its yield or its exception.
CloneBareEnter ==
    \E out \in Outcomes :
        LET remote == Remote(git_host, repo)
            new_dir == nextDir
            c == _git("clone", [NoArgs EXCEPT !.flags = <<"--bare", "--quiet">>,
                                              !.remote = remote, !.dest = new_dir],
                      out, <<>>)
        IN
        /\ cls = "student"
        /\ nextDir <= MaxDirs
        /\ nextDir' = nextDir + 1
        /\ calls' = <<c>>
        /\ IF out = "ok"
           THEN /\ dirs' = dirs \cup {new_dir}
                /\ scopes' = Append(scopes, new_dir)
                /\ git_dir' = new_dir
                /\ binds' = binds + 1
                /\ branchAtBind' = branch
                /\ outcome' = Result("clone_bare", "entered", NoExc, <<>>, new_dir, {})
           ELSE /\ dirs' = TemporaryDirectory_exit(dirs \cup {new_dir}, new_dir,
                                                   CloneBareExc(out, remote))
                /\ scopes' = scopes
                /\ outcome' = Result("clone_bare", "raised", CloneBareExc(out, remote),
                                     <<>>, new_dir, {})
                /\ UNCHANGED <<git_dir, binds, branchAtBind>>
        /\ UNCHANGED <<cls, username, repo, git_host, configs, branch>>

\* The caller's with block ends, normally or with an exception raised in its
\* body: the generator is resumed at its yield and its own with block exits.
ExitScope ==
    \E how \in {"returned", "raised"} :
        LET d == Last(scopes)
            exc == IF how = "raised" THEN [type |-> "BodyError", msg |-> <<>>] ELSE NoExc
        IN
        /\ scopes # <<>>
        /\ scopes' = SubSeq(scopes, 1, Len(scopes) - 1)
        /\ dirs' = TemporaryDirectory_exit(dirs, d, exc)
        /\ calls' = <<>>
        /\ outcome' = Result("exit", how, exc, <<>>, d, {})
        /\ UNCHANGED <<cls, username, repo, git_host, configs, git_dir, nextDir,
                       branch, binds, branchAtBind>>

\* StudentAssignmentGitClient.add
Add ==
    \E o1 \in Outcomes : \E o2 \in NextOutcomes(o1) : \E files \in TrackedAfter(o2) :
        LET cs == Issued(<<_git("add", [NoArgs EXCEPT !.flags = <<"--all">>], o1, <<>>),
                           _git("ls-files", NoArgs, o2, LsFilesOutput(files))>>,
                         {"nonzero", "missing"})
        IN
        /\ cls = "student"
        /\ calls' = cs
        /\ outcome' = IF Failed(calls', {"nonzero", "missing"})
                      THEN Result("add", "raised", AddExc(Last(calls').out), <<>>, None, {})
                      ELSE Result("add", "returned", NoExc, _ls_files(Last(calls').stdout),
                                  None, files)
        /\ UNCHANGED <<cls, username, repo, git_host, configs, git_dir, dirs,
                       scopes, nextDir, branch, binds, branchAtBind>>

\* StudentAssignmentGitClient.commit_push
CommitPush ==
    \E o1 \in Outcomes : \E o2 \in NextOutcomes(o1) : \E o3 \in NextOutcomes(o2) :
        LET commit == _git("commit",
                           [NoArgs EXCEPT !.flags = <<"--allow-empty", "--message",
                                                      "Automated commit by submit50">>],
                           o1, <<>>)
            query == _git("branch", [NoArgs EXCEPT !.flags = <<"--show-current">>],
                          o2, BranchOutput(branch))
            push == _git("push", [NoArgs EXCEPT !.flags = <<"--quiet", "origin">>,
                                                !.ref = _current_branch(query.stdout)],
                         o3, <<>>)
            cs == Issued(<<commit, query, push>>, {"nonzero", "missing"})
        IN
        /\ cls = "student"
        /\ calls' = cs
        /\ outcome' = IF Failed(calls', {"nonzero", "missing"})
                      THEN Result("commit_push", "raised", CommitPushExc(Last(calls').out),
                                  <<>>, None, {})
                      ELSE Result("commit_push", "returned", NoExc, <<>>, None, {})
        /\ UNCHANGED <<cls, username, repo, git_host, configs, git_dir, dirs,
                       scopes, nextDir, branch, binds, branchAtBind>>

\* The caller (or anyone) checks out another branch in the work tree.
Checkout ==
    \E b \in BranchNames :
        /\ b # branch
        /\ branch' = b
        /\ calls' = <<>>
        /\ outcome' = Result("checkout", "returned", NoExc, <<>>, None, {})
        /\ UNCHANGED <<cls, username, repo, git_host, configs, git_dir, dirs,
                       scopes, nextDir, binds, branchAtBind>>

Next ==
    \/ AssertGitInstalled
    \/ ConstructTemplate
    \/ ConstructStudent
    \/ CloneEnter
    \/ CloneBareEnter
    \/ ExitScope
    \/ Add
    \/ CommitPush
    \/ Checkout

Spec == Init /\ [][Next]_vars

------------------------------------------------------------------------------
\* Properties

Sites == {"clone", "clone_bare", "add", "commit_push"}

Constructed == cls = "student" /\ outcome.op = "__init__" /\ outcome.status = "returned"

\* Whether the argument list cfgs holds an argument `<key>=...`.
HasOverride(cfgs, key) ==
    \E i \in DOMAIN cfgs : cfgs[i] # <<>> /\ cfgs[i][1] = KeyPrefix(key)

\* C1: for each of the three keys, when the construction-time query
\* `git config --get <key>` succeeded and printed the key's value, the
\* override list of the new submission client holds no entry for that key.
C1_NoOverrideForConfiguredKey ==
    Constructed =>
        \A i \in 1..3 : calls[i].out = "ok" => ~HasOverride(configs, Keys[i])

\* The remote named by every clone invocation of the last operation.
ClonedRemotes == {c.args.remote : c \in {x \in Range(calls) : x.cmd = "clone"}}

\* The remote embedded in the clone-failure message of the last operation.
MessageRemotes ==
    IF outcome.op \in {"clone", "clone_bare"} /\ outcome.exc.type = "RuntimeError"
    THEN {SubSeq(outcome.exc.msg, 2, Len(outcome.exc.msg) - 1)}
    ELSE {}

\* C2 as stated: the remote that clone and clone_bare pass to git and embed in
\* their failure message is the host prefix immediately followed by the
\* repository path.
C2_RemoteIsConcatenation ==
    \A r \in ClonedRemotes \cup MessageRemotes : r = git_host \o repo

\* C2: the remote that clone and clone_bare pass to git and embed in their
\* failure message is the path join of host prefix and repository path: the
\* repository path alone when it begins with '/'; otherwise the host prefix,
\* then a '/' unless the host prefix is empty or ends with one, then the
\* repository path.
C2_RemoteIsPathJoin ==
    \A r \in ClonedRemotes \cup MessageRemotes :
        /\ StartsWith(repo, "/") => r = repo
        /\ ~StartsWith(repo, "/") /\ (git_host = <<>> \/ EndsWith(git_host, "/"))
              => r = git_host \o repo
        /\ ~StartsWith(repo, "/") /\ git_host # <<>> /\ ~EndsWith(git_host, "/")
              => r = git_host \o <<"/">> \o repo

\* A clone with the default host and 'org/repo' names 'git@github.com:/org/repo'.
C2_Witness ==
    /\ git_host = DefaultHost
    /\ repo = OrgRepo
    /\ outcome.op = "clone_bare"
    /\ outcome.exc.type = "RuntimeError"
    /\ ClonedRemotes \cup MessageRemotes
         = {<<"g", "i", "t", "@", "g", "i", "t", "h", "u", "b", ".", "c", "o", "m", ":",
              "/", "o", "r", "g", "/", "r", "e", "p", "o">>}

RawTypes == {"CalledProcessError", "FileNotFoundError"}

\* C3 as stated: no operation ends with the raw execution failure (of either
\* kind) propagating to its caller.
C3_NoRawFailureEscapes == outcome.exc.type \notin RawTypes

\* C3: each call site replaces one kind of raw failure.  A non-zero exit is
\* replaced by the 'not configured' result in the construction-time queries
\* and by the user-facing error in clone, clone_bare, add and commit_push; a
\* missing executable is replaced by the user-facing error in
\* assert_git_installed.  The other kind propagates raw from each site.
C3_EachSiteCatchesOneKind ==
    /\ outcome.op \in Sites /\ calls # <<>> =>
          /\ Last(calls).out = "nonzero" => outcome.exc.type = "RuntimeError"
          /\ Last(calls).out = "missing" => outcome.exc.type = "FileNotFoundError"
          /\ Last(calls).out = "ok" => outcome.exc = NoExc
    /\ outcome.op = "assert_git_installed" =>
          /\ Last(calls).out = "missing" => outcome.exc.type = "RuntimeError"
          /\ Last(calls).out = "nonzero" => outcome.exc.type = "CalledProcessError"
          /\ Last(calls).out = "ok" => outcome.exc = NoExc
    /\ outcome.op = "__init__" /\ calls # <<>> =>
          /\ Last(calls).out = "missing" <=> outcome.exc.type = "FileNotFoundError"
          /\ Last(calls).out # "missing" <=> outcome.exc = NoExc
          /\ Constructed =>
                \A i \in 1..3 : calls[i].out = "nonzero" => HasOverride(configs, Keys[i])

\* A bare clone that exited non-zero ended in the user-facing error.
C3_Witness ==
    /\ outcome.op = "clone_bare"
    /\ Last(calls).out = "nonzero"
    /\ outcome.exc.type = "RuntimeError"

C5_BoundAtMostOnce ==
    /\ binds <= 1
    /\ outcome.op \in {"add", "commit_push"} =>
          \A c \in Range(calls) : c.gitdir # None

\* C5: git_dir is assigned only by a bare clone that succeeded, immediately
\* after it and to the directory it cloned into (never after a failed one),
\* once for every such clone, so that a later successful clone_bare assigns it
\* again; every add or commit_push invocation of git carries --git-dir exactly
\* when the handle is bound, naming the directory bound last.
C5_BoundByEachSuccessfulBareClone ==
    /\ [][(git_dir' # git_dir \/ binds' # binds) =>
            /\ outcome'.op = "clone_bare"
            /\ outcome'.status = "entered"
            /\ Last(calls').out = "ok"
            /\ git_dir' = outcome'.dir
            /\ binds' = binds + 1]_vars
    /\ [][outcome'.op = "clone_bare" /\ outcome'.status = "entered" =>
            /\ git_dir' = outcome'.dir
            /\ binds' = binds + 1]_vars
    /\ [](outcome.op \in {"add", "commit_push"} =>
            \A c \in Range(calls) : c.gitdir = git_dir)

\* The handle has been assigned twice, and add ran with the later directory.
C5_Witness ==
    /\ binds > 1
    /\ outcome.op = "add"
    /\ calls # <<>>
    /\ calls[1].gitdir = git_dir

\* C6: a successful add returns a permutation of the tracked file names in
\* strictly ascending lexicographic order, whatever the names are (spaces
\* included).
C6_AddReturnsSortedTrackedNames ==
    outcome.op = "add" /\ outcome.status = "returned" =>
        /\ Range(outcome.value) = outcome.files
        /\ Len(outcome.value) = Cardinality(outcome.files)
        /\ \A i \in 1..Len(outcome.value) : \A j \in 1..Len(outcome.value) :
              i < j => StrLess(outcome.value[i], outcome.value[j])

\* The commands of a sequence of invocations.
Cmds(cs) == [i \in DOMAIN cs |-> cs[i].cmd]

IsPrefix(s, t) == Len(s) <= Len(t) /\ s = SubSeq(t, 1, Len(s))

\* C7: commit_push issues commit, then the current-branch query, then push;
\* the push is to `origin` on the branch that is current during the call,
\* whatever branch was current when the directory was bound.
C7_PushesBranchCurrentAtCall ==
    outcome.op = "commit_push" =>
        /\ calls # <<>>
        /\ IsPrefix(Cmds(calls), <<"commit", "branch", "push">>)
        /\ Len(calls) = 3 =>
              /\ calls[2].stdout = BranchOutput(branch)
              /\ calls[3].args.flags = <<"--quiet", "origin">>
              /\ calls[3].args.ref = branch

\* A push made after the branch changed since the directory was bound.
C7_Witness ==
    /\ outcome.op = "commit_push"
    /\ outcome.status = "returned"
    /\ Len(calls) = 3
    /\ git_dir # None
    /\ branch # branchAtBind
    /\ calls[3].args.ref = branch

\* The part of a str after its first `c`; the whole str when it holds no `c`.
RECURSIVE After(_, _)
After(s, c) ==
    IF s = <<>> THEN <<>>
    ELSE IF Head(s) = c THEN Tail(s)
    ELSE After(Tail(s), c)

Holds(s, c) == \E i \in DOMAIN s : s[i] = c

\* The part of a str before its first ':' or '/'.
RECURSIVE UpToSeparator(_)
UpToSeparator(s) ==
    IF s = <<>> \/ Head(s) \in {":", "/"} THEN <<>>
    ELSE <<Head(s)>> \o UpToSeparator(Tail(s))

\* The domain of a host prefix: 'github.com' for 'git@github.com:'.
HostDomain(h) == UpToSeparator(IF Holds(h, "@") THEN After(h, "@") ELSE h)

\* The construction-time query of user.email found it not configured.
EmailFoundUnconfigured == Constructed /\ not_configured(calls[2])

\* Whether the argument list cfgs holds `-c <arg>`.
HasConfig(cfgs, arg) ==
    \E i \in DOMAIN cfgs : i > 1 /\ cfgs[i - 1] = DashC /\ cfgs[i] = arg

\* C8 as stated: when user.email is found unconfigured at construction, the
\* override added is user.email=<identity>@users.noreply.<host-domain>, with
\* the domain of the host prefix the instance uses.
C8_EmailUsesHostDomain ==
    EmailFoundUnconfigured =>
        HasConfig(configs, <<"user.email=">> \o username \o S_users_noreply
                               \o HostDomain(git_host))

\* C8: when user.email is found unconfigured at construction, the override
\* added is user.email=<identity>@users.noreply.github.com, for every identity
\* and whatever host prefix the instance uses.
C8_EmailUsesGithubDomain ==
    EmailFoundUnconfigured =>
        /\ HasConfig(configs, <<"user.email=">> \o username
                                 \o <<"@", "u", "s", "e", "r", "s", ".", "n", "o", "r", "e",
                                      "p", "l", "y", ".", "g", "i", "t", "h", "u", "b", ".",
                                      "c", "o", "m">>)
        /\ Cardinality({i \in DOMAIN configs :
                           configs[i] # <<>> /\ configs[i][1] = "user.email="}) = 1

\* user.email was absent and the instance uses a host that is not github.com.
C8_Witness ==
    /\ Constructed
    /\ calls[2].out = "nonzero"
    /\ HostDomain(git_host) = <<"h", ".", "i", "o">>
    /\ HasOverride(configs, "user.email")

\* The invocations of the last operation are all different commands, and none
\* follows one that failed.
SingleAttemptFailFast ==
    /\ \A i \in DOMAIN calls : \A j \in DOMAIN calls :
          i # j => calls[i].cmd # calls[j].cmd
    /\ \A i \in DOMAIN calls : i < Len(calls) => calls[i].out = "ok"

FixedError ==
    CASE outcome.op = "add" -> <<"Failed to ready files for submission.">>
      [] outcome.op = "commit_push" -> <<"Failed to submit.">>
      [] OTHER -> outcome.exc.msg

\* C9 as stated: within one call of clone, clone_bare, add or commit_push each
\* git command is invoked at most once, nothing is invoked after the first
\* failing invocation, and the operation then ends in its fixed user-facing
\* error.
C9_FailFastFixedError ==
    outcome.op \in Sites =>
        /\ calls # <<>>
        /\ SingleAttemptFailFast
        /\ Last(calls).out # "ok" =>
              /\ outcome.status = "raised"
              /\ outcome.exc = RuntimeError(FixedError)

\* C9: within one call of clone, clone_bare, add or commit_push each git
\* command is invoked at most once, nothing is invoked after the first failing
\* invocation, and the operation then ends in an error: its fixed user-facing
\* error when the invocation exited non-zero, the raw FileNotFoundError when
\* the executable was not found.
C9_FailFastSingleAttempt ==
    outcome.op \in Sites =>
        /\ calls # <<>>
        /\ SingleAttemptFailFast
        /\ Last(calls).out = "nonzero" =>
              /\ outcome.status = "raised"
              /\ outcome.exc = RuntimeError(FixedError)
        /\ Last(calls).out = "missing" =>
              /\ outcome.status = "raised"
              /\ outcome.exc = Raw("missing")
        /\ Last(calls).out = "ok" => outcome.status # "raised"

\* A push failed after the commit succeeded: nothing follows it.
C9_Witness ==
    /\ outcome.op = "commit_push"
    /\ Cmds(calls) = <<"commit", "branch", "push">>
    /\ calls[1].out = "ok"
    /\ calls[3].out = "nonzero"
    /\ outcome.exc = RuntimeError(<<"Failed to submit.">>)

\* C10: no git invocation is issued with --git-dir naming a temporary
\* directory that has been removed.
C10_NeverPassesRemovedDir ==
    \A c \in Range(calls) : c.gitdir # None => c.gitdirExists

====
